---- MODULE Spec2Model ----
(***************************************************************************)
(* A model of jobAnalyzer: the skill matcher of data_processing.py, the    *)
(* scraping handlers of main.py / data_processing.py and the aggregator of *)
(* whole.py, with the two CSV files they write.                            *)
(*                                                                         *)
(* Text is a TLA+ string, read character by character with SubSeq.  A      *)
(* Python list is a sequence.  A float is an exact fraction <<n, d>>.      *)
(***************************************************************************)
EXTENDS Integers, Sequences, FiniteSets, TLC

VARIABLES
    \* ---- the matcher harness (SpecMatch) ----
    required,        \* the required-skill list handed to the matcher
    current,         \* the current-skill list handed to the matcher
    result,          \* what skill_match_percentage(required, current) returned
    stored,          \* the record request builds for a listing requiring `required`
    mop,             \* the last step of the harness
    \* ---- the program (Spec) ----
    working_dir,     \* main.working_dir
    current_skills,  \* main.current_skills
    fs,              \* per directory: output_data.csv and output_whole.csv
    pc,              \* where the running GUI handler stands ("idle": none runs)
    df,              \* the DataFrame the handler's last request returned
    all_data,        \* fetch_job_data's all_data
    url_idx,         \* fetch_job_data's position in urls
    last,            \* the last step taken, and whether it raised
    before,          \* the files of the handler's directory when it started
    runs,            \* scrapes and whole analyses started so far
    calls,           \* the per-listing calls the handler's request made
    \* ---- the file names (SpecName) ----
    filename,        \* the job title handed to sanitize_filename
    sanitized,       \* what sanitize_filename(filename) returned
    documents,       \* the names of the documents generated for the title
    \* ---- the cluster count selector (SpecElbow) ----
    distortions,     \* the distortion of the fit for 1, 2, ... clusters
    clusters         \* the cluster count the selector returned

mvars == <<required, current, result, stored, mop>>

gvars == <<working_dir, current_skills, fs, pc, df, all_data, url_idx, last,
           before, runs, calls>>

svars == <<filename, sanitized, documents>>

evars == <<distortions, clusters>>

vars == <<required, current, result, stored, mop, working_dir, current_skills,
          fs, pc, df, all_data, url_idx, last, before, runs, calls, filename,
          sanitized, documents, distortions, clusters>>

\* ------------------------------------------------------------------ bounds

\* Longest skill list handed to the matcher.
MaxSkills == 2

\* Scrapes and whole analyses started in one session.
MaxRuns == 2

\* Longest job title handed to sanitize_filename.
MaxTitle == 2

\* Most candidate cluster counts tried by the selector.
MaxCounts == 6

\* ------------------------------------------------------------- Python text

UpperLetters == "ABCDEFGHIJKLMNOPQRSTUVWXYZ"

LowerLetters == "abcdefghijklmnopqrstuvwxyz"

\* The characters of a str, as iterating over it yields them.
Chars(s) == [i \in 1..Len(s) |-> SubSeq(s, i, i)]

\* A lower() that leaves every character as it is.
LowerCharIdentity(c) == c

\* The lowercase letter of each uppercase letter.
LowerOf ==
    [c \in {SubSeq(UpperLetters, i, i) : i \in 1..Len(UpperLetters)} |->
        LET i == CHOOSE j \in 1..Len(UpperLetters) : SubSeq(UpperLetters, j, j) = c
        IN  SubSeq(LowerLetters, i, i)]

\* str.lower() on one character.
LowerChar(c) == IF c \in DOMAIN LowerOf THEN LowerOf[c] ELSE c

RECURSIVE Lower(_)
\* str.lower()
Lower(s) == IF s = "" THEN "" ELSE LowerChar(SubSeq(s, 1, 1)) \o Lower(Tail(s))

RECURSIVE JoinQuoted(_)
\* ", ".join(repr(x) for x in list): the inside of a list's str()
JoinQuoted(l) ==
    IF l = <<>> THEN ""
    ELSE "'" \o Head(l) \o "'" \o (IF Len(l) > 1 THEN ", " ELSE "") \o JoinQuoted(Tail(l))

\* str(list) of a list of str without quotes or backslashes: "['a', 'b']"
PyStr(l) == "[" \o JoinQuoted(l) \o "]"

\* ------------------------------------------------------------------ floats

RECURSIVE Gcd(_, _)
Gcd(a, b) == IF b = 0 THEN a ELSE Gcd(b, a % b)

\* What a / b leaves when b is 0: no float, the exception.
ZeroDivisionError == <<1, 0>>

\* The float a / b * 100 as a fraction in lowest terms.
Ratio100(a, b) ==
    IF b = 0 THEN ZeroDivisionError
    ELSE LET g == Gcd(a * 100, b) IN <<(a * 100) \div g, b \div g>>

Zero == <<0, 1>>

\* ------------------------------------------------------- DataFrame values

\* A cell of a DataFrame: a str, a bool, an int, a float n/d, or NaN.
StrV(s) == [t |-> "str", s |-> s, n |-> 0, d |-> 1]

BoolV(s) == [t |-> "bool", s |-> s, n |-> 0, d |-> 1]

IntV(n) == [t |-> "int", s |-> "", n |-> n, d |-> 1]

FloatV(f) == [t |-> "float", s |-> "", n |-> f[1], d |-> f[2]]

NaN == [t |-> "nan", s |-> "", n |-> 0, d |-> 1]

\* JSON null, as json.loads returns it.
None == [t |-> "none", s |-> "", n |-> 0, d |-> 1]

Digits == "0123456789"

\* The value of each digit.
DigitValue ==
    [c \in {SubSeq(Digits, i, i) : i \in 1..Len(Digits)} |->
        (CHOOSE j \in 1..Len(Digits) : SubSeq(Digits, j, j) = c) - 1]

RECURSIVE FormatInt(_)
\* str(n) of an int n >= 0
FormatInt(n) ==
    IF n < 10 THEN SubSeq(Digits, n + 1, n + 1)
    ELSE FormatInt(n \div 10) \o SubSeq(Digits, (n % 10) + 1, (n % 10) + 1)

\* str(x) of a JSON number or null
StrOf(x) == IF x.t = "none" THEN "None" ELSE FormatInt(x.n)

\* ------------------------------------------------------------------ pandas
\* A DataFrame is [columns: the column names in order, rows: a sequence of
\* functions from the column names to cells].  A CSV file is a sequence of
\* lines, a line the sequence of its fields; an empty line is <<>>.

Range(l) == {l[i] : i \in 1..Len(l)}

EmptyFrame == [columns |-> <<>>, rows |-> <<>>]

\* pd.DataFrame(list of dicts): the columns are the keys of the dicts, in the
\* order `columns` of the first dict.
DataFrame(data_list, columns) ==
    IF data_list = <<>> THEN EmptyFrame
    ELSE [columns |-> columns, rows |-> data_list]

\* DataFrame.empty
IsEmpty(frame) == frame.rows = <<>> \/ frame.columns = <<>>

\* How to_csv writes a float: repr(float).  A whole float is "<int>.0"; the
\* digits of any other float are kept as the exact fraction "<n>/<d>".
FormatFloat(n, d) ==
    IF d = 1 THEN FormatInt(n) \o ".0" ELSE FormatInt(n) \o "/" \o FormatInt(d)

\* How to_csv writes one cell.
FormatCell(v) ==
    CASE v.t = "str" -> v.s
      [] v.t = "bool" -> v.s
      [] v.t = "int" -> FormatInt(v.n)
      [] v.t = "float" -> FormatFloat(v.n, v.d)
      [] OTHER -> ""

\* The lines frame.to_csv(..., index=False, header=header) writes.
to_csv_lines(frame, header) ==
    (IF header THEN <<frame.columns>> ELSE <<>>)
        \o [i \in 1..Len(frame.rows) |->
               [j \in 1..Len(frame.columns) |->
                   FormatCell(frame.rows[i][frame.columns[j]])]]

IsDigit(c) == c \in DOMAIN DigitValue

IsIntText(s) == s # "" /\ \A i \in 1..Len(s) : IsDigit(SubSeq(s, i, i))

RECURSIVE ParseInt(_)
ParseInt(s) ==
    IF s = "" THEN 0
    ELSE 10 * ParseInt(SubSeq(s, 1, Len(s) - 1)) + DigitValue[SubSeq(s, Len(s), Len(s))]

\* Where the text of a float splits: "<int>.0", or "<n>/<d>".
IsWholeFloatText(s) ==
    Len(s) > 2 /\ SubSeq(s, Len(s) - 1, Len(s)) = ".0" /\ IsIntText(SubSeq(s, 1, Len(s) - 2))

FractionSplits(s) ==
    {k \in 2..(Len(s) - 1) : /\ SubSeq(s, k, k) = "/"
                             /\ IsIntText(SubSeq(s, 1, k - 1))
                             /\ IsIntText(SubSeq(s, k + 1, Len(s)))}

IsFloatText(s) == IsWholeFloatText(s) \/ FractionSplits(s) # {}

ParseFloat(s) ==
    IF IsIntText(s) THEN FloatV(<<ParseInt(s), 1>>)
    ELSE IF IsWholeFloatText(s) THEN FloatV(<<ParseInt(SubSeq(s, 1, Len(s) - 2)), 1>>)
    ELSE LET k == CHOOSE j \in FractionSplits(s) : TRUE
         IN  FloatV(<<ParseInt(SubSeq(s, 1, k - 1)), ParseInt(SubSeq(s, k + 1, Len(s)))>>)

IsBoolText(s) == s \in {"True", "False"}

\* read_csv's missing values among the texts the program writes.
IsNA(s) == s = ""

\* read_csv's type inference for one column, given the texts of its cells:
\* int64 when every cell is an int, float64 when every cell is a number or
\* missing, bool when every cell is a bool, object (str and NaN) otherwise.
ColumnType(texts) ==
    LET present == {i \in 1..Len(texts) : ~IsNA(texts[i])}
    IN  IF \A i \in present : IsIntText(texts[i])
        THEN (IF present = 1..Len(texts) /\ present # {} THEN "int" ELSE "float")
        ELSE IF \A i \in present : IsIntText(texts[i]) \/ IsFloatText(texts[i])
        THEN "float"
        ELSE IF present = 1..Len(texts) /\ \A i \in present : IsBoolText(texts[i])
        THEN "bool"
        ELSE "object"

ParseCell(s, type) ==
    IF IsNA(s) THEN NaN
    ELSE CASE type = "int" -> IntV(ParseInt(s))
           [] type = "float" -> ParseFloat(s)
           [] type = "bool" -> BoolV(s)
           [] OTHER -> StrV(s)

NonBlank(lines) == SelectSeq(lines, LAMBDA l : l # <<>>)

\* The column names read_csv makes of a header line: a repeated name gets
\* ".1", ".2", ... appended.
MangledNames(header) ==
    [j \in 1..Len(header) |->
        LET earlier == Cardinality({i \in 1..(j - 1) : header[i] = header[j]})
        IN  IF earlier = 0 THEN header[j] ELSE header[j] \o "." \o FormatInt(earlier)]

\* read_csv raises: no line to take the columns from (EmptyDataError), or a
\* data line with more fields than the header (ParserError).
read_csv_raises(lines) ==
    LET text == NonBlank(lines)
    IN  \/ text = <<>>
        \/ \E i \in 2..Len(text) : Len(text[i]) > Len(text[1])

\* A data line with fewer fields than the header is filled with missing cells.
Field(line, j) == IF j <= Len(line) THEN line[j] ELSE ""

\* pd.read_csv(file_path), when it does not raise.
read_csv(lines) ==
    LET text == NonBlank(lines)
        names == MangledNames(text[1])
        data == Tail(text)
        type == [j \in 1..Len(names) |->
                    ColumnType([i \in 1..Len(data) |-> Field(data[i], j)])]
    IN  [columns |-> names,
         rows |-> [i \in 1..Len(data) |->
                      [c \in Range(names) |->
                          LET j == CHOOSE k \in 1..Len(names) : names[k] = c
                          IN  ParseCell(Field(data[i], j), type[j])]]]

\* The names of l2 that l1 lacks, in l2's order.
Missing(l1, l2) == SelectSeq(l2, LAMBDA c : c \notin Range(l1))

\* row with NaN in the columns it lacks
Reindexed(row, columns) ==
    [c \in Range(columns) |-> IF c \in DOMAIN row THEN row[c] ELSE NaN]

\* pd.concat([a, b])
concat(a, b) ==
    LET columns == a.columns \o Missing(a.columns, b.columns)
    IN  [columns |-> columns,
         rows |-> [i \in 1..Len(a.rows) |-> Reindexed(a.rows[i], columns)]
                      \o [i \in 1..Len(b.rows) |-> Reindexed(b.rows[i], columns)]]

KeyOf(row, subset) == [j \in 1..Len(subset) |-> row[subset[j]]]

\* frame.drop_duplicates(subset=subset): the first row of each key stays.
\* Two cells are the same key when they are equal objects: the int 10 and
\* the str "10" are not, two NaN are.
drop_duplicates(frame, subset) ==
    LET first == {i \in 1..Len(frame.rows) :
                     \A k \in 1..(i - 1) :
                         KeyOf(frame.rows[k], subset) # KeyOf(frame.rows[i], subset)}
        RECURSIVE Pick(_)
        Pick(i) == IF i > Len(frame.rows) THEN <<>>
                   ELSE (IF i \in first THEN <<frame.rows[i]>> ELSE <<>>) \o Pick(i + 1)
    IN  [columns |-> frame.columns, rows |-> Pick(1)]

\* ----------------------------------------------------------- skill matcher

\* skill_match_percentage: both arguments are what iterating over them yields
\* (a list's elements, a str's characters).
\* A matcher that counts the skills of either list, not the common ones.
skill_match_percentage_AnySkill(required_skills, skills) ==
    IF required_skills = <<>> THEN Zero
    ELSE LET required_skills_lower == [i \in 1..Len(required_skills) |-> Lower(required_skills[i])]
             current_skills_lower == [i \in 1..Len(skills) |-> Lower(skills[i])]
             matched_skills == Range(required_skills_lower) \cup Range(current_skills_lower)
         IN  Ratio100(Cardinality(matched_skills), Len(required_skills_lower))

\* A matcher without the test for an empty required list.
skill_match_percentage_NoGuard(required_skills, skills) ==
    LET required_skills_lower == [i \in 1..Len(required_skills) |-> Lower(required_skills[i])]
        current_skills_lower == [i \in 1..Len(skills) |-> Lower(skills[i])]
        matched_skills == Range(required_skills_lower) \cap Range(current_skills_lower)
    IN  Ratio100(Cardinality(matched_skills), Len(required_skills_lower))

skill_match_percentage(required_skills, skills) ==
    IF required_skills = <<>> THEN Zero
    ELSE LET required_skills_lower == [i \in 1..Len(required_skills) |->
                                          Lower(required_skills[i])]
             current_skills_lower == [i \in 1..Len(skills) |->
                                         Lower(skills[i])]
             matched_skills == Range(required_skills_lower)
                                   \cap Range(current_skills_lower)
         IN  Ratio100(Cardinality(matched_skills), Len(required_skills_lower))

\* -------------------------------------------------------- listing records

Today == "2024-05-01"

\* The columns of the records of data_processing.request, in the order of
\* the dict's keys.
request_columns ==
    <<"TITLE", "REQUIRED_SKILLS", "ADDITIONAL_SKILLS", "WORKPLACE_TYPE",
      "REMOTE_INTERVIEW", "URL", "PAYMENT_FROM", "PAYMENT_TO", "LOCATION",
      "COMPANY", "DATE", "JOB_TYPE", "MATCH_PERCENTAGE">>

\* Building the record raises: data["employmentTypes"][0] of an empty list.
request_row_raises(data) == data.employmentTypes = <<>>

\* The record data_processing.request builds for one listing of the payload.
request_row(data, skills, job_type) ==
    LET sub_url == "https://justjoin.it/offers/" \o data.slug
        required_skills == PyStr(data.requiredSkills)
        match_percentage == skill_match_percentage(Chars(required_skills), skills)
    IN  [TITLE |-> StrV(data.title),
         REQUIRED_SKILLS |-> StrV(PyStr(data.requiredSkills)),
         ADDITIONAL_SKILLS |-> StrV(PyStr(data.niceToHaveSkills)),
         WORKPLACE_TYPE |-> StrV(data.workplaceType),
         REMOTE_INTERVIEW |-> BoolV(data.remoteInterview),
         URL |-> StrV(sub_url),
         PAYMENT_FROM |-> StrV(StrOf(data.employmentTypes[1].fromPln)),
         PAYMENT_TO |-> StrV(StrOf(data.employmentTypes[1].toPln)),
         LOCATION |-> StrV(data.city),
         COMPANY |-> StrV(data.companyName),
         DATE |-> StrV(Today),
         JOB_TYPE |-> StrV(job_type),
         MATCH_PERCENTAGE |-> FloatV(match_percentage)]

\* The columns of the records of whole.request.
whole_request_columns ==
    <<"TITLE", "REQUIRED_SKILLS", "ADDITIONAL_SKILLS", "WORKPLACE_TYPE",
      "REMOTE_INTERVIEW", "URL", "PAYMENT_FROM", "PAYMENT_TO", "LOCATION",
      "COMPANY", "DATE">>

\* The record whole.request builds for one listing of the payload.
whole_request_row(data) ==
    LET sub_url == "https://justjoin.it/offers/" \o data.slug
        has_info == data.employmentTypes # <<>>
    IN  [TITLE |-> StrV(data.title),
         REQUIRED_SKILLS |-> StrV(PyStr(data.requiredSkills)),
         ADDITIONAL_SKILLS |-> StrV(PyStr(data.niceToHaveSkills)),
         WORKPLACE_TYPE |-> StrV(data.workplaceType),
         REMOTE_INTERVIEW |-> BoolV(data.remoteInterview),
         URL |-> StrV(sub_url),
         PAYMENT_FROM |-> StrV(IF has_info THEN StrOf(data.employmentTypes[1].fromPln)
                               ELSE ""),
         PAYMENT_TO |-> StrV(IF has_info THEN StrOf(data.employmentTypes[1].toPln)
                             ELSE ""),
         LOCATION |-> StrV(data.city),
         COMPANY |-> StrV(data.companyName),
         DATE |-> StrV(Today)]

\* ------------------------------------------------------------------- files

NoFile == [exists |-> FALSE, lines |-> <<>>]

\* open(path, "a") and write lines: the file is created when missing.
Appended(file, lines) == [exists |-> TRUE, lines |-> file.lines \o lines]

\* open(path, "w") and write lines.
Written(lines) == [exists |-> TRUE, lines |-> lines]

\* ------------------------------------------------- data_processing.request

\* What the job board answers to one GET: requests.get raises ("error"), or
\* a page comes back with a status and, when `embedded`, the {"pages": ...}
\* JSON holding the listings `payload`.
NoPayload(response) == ~response.embedded

\* A request without its except clause: the exception leaves the function.
dp_caught_Reraised(files) == [files |-> files, df |-> EmptyFrame, raised |-> TRUE]

\* The except clause of request: the error is printed and an empty
\* DataFrame returned.
dp_caught(files) == [files |-> files, df |-> EmptyFrame, raised |-> FALSE]

\* The per-listing operations of request, in the order of the calls.  An
\* error in create_working_dir (os.mkdir) or generate_cover_letter (doc.save)
\* is raised into request; take_job_description catches every error of its
\* own, and word_cv_prepare those of its copy, its open and its saves.
ListingOps ==
    <<"create_working_dir", "take_job_description", "word_cv_prepare",
      "generate_cover_letter">>

\* Every error of a per-listing operation is raised into request.
Propagates_Every(op) == op \in Range(ListingOps)

Propagates(op) == op \in {"create_working_dir", "generate_cover_letter"}

\* fault = [at, op]: operation op fails for listing number at (0: none does).
NoFault == [at |-> 0, op |-> "create_working_dir"]

Faults(response) ==
    {NoFault} \cup [at : 1..Len(response.payload), op : Range(ListingOps)]

\* An exception reaches request's except clause while listing k is handled.
listing_raises(data, k, fault) ==
    request_row_raises(data) \/ (fault.at = k /\ Propagates(fault.op))

RECURSIVE ListingCalls(_, _, _)
\* The per-listing calls request makes from listing k on: each with its
\* listing, its operation and whether it failed.  The loop ends at a row
\* that cannot be built and after a call whose error is raised into request.
ListingCalls(listings, k, fault) ==
    IF k > Len(listings) \/ request_row_raises(listings[k]) THEN <<>>
    ELSE LET failed(j) == fault.at = k /\ fault.op = ListingOps[j]
             upto(n) == [j \in 1..n |->
                            [at |-> k, op |-> ListingOps[j], failed |-> failed(j)]]
             stop == {j \in 1..Len(ListingOps) : failed(j) /\ Propagates(ListingOps[j])}
         IN  IF stop # {} THEN upto(CHOOSE j \in stop : TRUE)
             ELSE upto(Len(ListingOps)) \o ListingCalls(listings, k + 1, fault)

\* The per-listing calls of one request.
Calls(response, fault) ==
    IF response.kind = "error" \/ NoPayload(response) THEN <<>>
    ELSE ListingCalls(response.payload, 1, fault)

\* A word_cv_prepare that adds the listing's skills to the list it is given.
word_cv_prepare_Extends(own, skills) == own \o skills

\* The caller's current_skills list after word_cv_prepare(..., skills, ...,
\* current_skills): all_skills is built as a new list.
word_cv_prepare(own, skills) == own

\* How many listings of the payload request hands to word_cv_prepare.
WordCvCalls(response, fault) ==
    IF response.kind = "error" \/ NoPayload(response) THEN 0
    ELSE LET listings == response.payload
             bad == {k \in 1..Len(listings) : listing_raises(listings[k], k, fault)}
         IN  IF bad = {} THEN Len(listings)
             ELSE LET k == CHOOSE x \in bad : \A y \in bad : x <= y
                  IN  IF request_row_raises(listings[k])
                         \/ fault.op = "create_working_dir"
                      THEN k - 1 ELSE k

RECURSIVE SkillsAfter(_, _, _)
\* The caller's current_skills list after the first n listings.
SkillsAfter(own, listings, n) ==
    IF n = 0 THEN own
    ELSE word_cv_prepare(SkillsAfter(own, listings, n - 1), listings[n].requiredSkills)

\* data_processing.request(working_dir, current_skills, url, job_type) on the
\* files of working_dir.
dp_request(files, skills, response, fault, job_type) ==
    LET cleared == [files EXCEPT !.data = NoFile]
    IN  IF response.kind = "error" \/ NoPayload(response)
        THEN dp_caught(cleared)
        ELSE LET listings == response.payload
                 bad == {k \in 1..Len(listings) :
                            listing_raises(listings[k], k, fault)}
             IN  IF bad # {} THEN dp_caught(cleared)
                 ELSE LET data_list == [k \in 1..Len(listings) |->
                                           request_row(listings[k], skills, job_type)]
                          frame == DataFrame(data_list, request_columns)
                          write_header == ~cleared.data.exists
                          data2 == Appended(cleared.data,
                                            to_csv_lines(frame, write_header))
                          whole2 == Appended(cleared.whole,
                                             to_csv_lines(frame, ~cleared.whole.exists))
                      IN  [files |-> [data |-> data2, whole |-> whole2],
                           df |-> frame, raised |-> FALSE]

\* ------------------------------------------------------------ whole.request

\* A request without its except clause: the exception leaves the function.
whole_caught_Reraised(files) == [files |-> files, df |-> EmptyFrame, raised |-> TRUE]

\* The except clause of whole.request.
whole_caught(files) == [files |-> files, df |-> EmptyFrame, raised |-> FALSE]

\* whole.request(working_dir, current_skills, url) on the files of working_dir.
whole_request(files, response) ==
    LET cleared == [files EXCEPT !.data = NoFile]
    IN  IF response.kind = "error" THEN whole_caught(cleared)
        ELSE IF response.status # 200
        THEN [files |-> cleared, df |-> EmptyFrame, raised |-> FALSE]
        ELSE IF NoPayload(response) THEN whole_caught(cleared)
        ELSE LET listings == response.payload
                 data_list == [k \in 1..Len(listings) |->
                                  whole_request_row(listings[k])]
                 frame == DataFrame(data_list, whole_request_columns)
                 write_header == ~cleared.data.exists
                 data2 == Appended(cleared.data, to_csv_lines(frame, write_header))
                 whole2 == Appended(cleared.whole,
                                    to_csv_lines(frame, ~cleared.whole.exists))
             IN  [files |-> [data |-> data2, whole |-> whole2],
                  df |-> frame, raised |-> FALSE]

\* --------------------------------------------------------- whole.save_to_csv

RECURSIVE StripLeft(_)
StripLeft(s) ==
    IF s # "" /\ SubSeq(s, 1, 1) \in {" ", "\n", "\t"} THEN StripLeft(Tail(s)) ELSE s

RECURSIVE StripRight(_)
StripRight(s) ==
    IF s # "" /\ SubSeq(s, Len(s), Len(s)) \in {" ", "\n", "\t"}
    THEN StripRight(SubSeq(s, 1, Len(s) - 1)) ELSE s

\* str.strip()
Strip(s) == StripRight(StripLeft(s))

required_columns ==
    <<"TITLE", "REQUIRED_SKILLS", "ADDITIONAL_SKILLS", "WORKPLACE_TYPE",
      "REMOTE_INTERVIEW", "URL", "PAYMENT_FROM", "PAYMENT_TO", "LOCATION",
      "COMPANY", "DATE", "JOB_TYPE">>

dedup_subset == <<"TITLE", "PAYMENT_FROM", "PAYMENT_TO">>

\* df.columns = [col.strip() for col in df.columns]
Stripped(frame) ==
    [columns |-> [j \in 1..Len(frame.columns) |-> Strip(frame.columns[j])],
     rows |-> [i \in 1..Len(frame.rows) |->
                  [c \in {Strip(x) : x \in Range(frame.columns)} |->
                      LET x == CHOOSE y \in Range(frame.columns) : Strip(y) = c
                      IN  frame.rows[i][x]]]]

\* df[columns], a column df lacks being added as ""
Selected(frame, columns) ==
    [columns |-> columns,
     rows |-> [i \in 1..Len(frame.rows) |->
                  [c \in Range(columns) |->
                      IF c \in Range(frame.columns) THEN frame.rows[i][c]
                      ELSE StrV("")]]]

\* whole.save_to_csv(data, file_path) on the file at file_path: the file it
\* leaves, and whether it raised (read_csv did).
save_to_csv(data, file) ==
    LET frame0 == DataFrame(data, whole_request_columns \o <<"JOB_TYPE">>)
    IN  IF IsEmpty(frame0) THEN [file |-> file, raised |-> FALSE]
        ELSE LET frame == Stripped(frame0)
             IN  IF file.exists /\ read_csv_raises(file.lines)
                 THEN [file |-> file, raised |-> TRUE]
                 ELSE LET combined_df ==
                              IF file.exists
                              THEN drop_duplicates(concat(read_csv(file.lines), frame),
                                                   dedup_subset)
                              ELSE drop_duplicates(frame, dedup_subset)
                      IN  [file |-> Written(to_csv_lines(
                                       Selected(combined_df, required_columns), TRUE)),
                           raised |-> FALSE]

\* ================================================================ program
\* The GUI session: one handler runs at a time (tkinter's event loop), a
\* handler that calls request and then goes on is a step per call.

\* The first keys of main.urls, in the order of the dict.
urls == <<"JavaScript", "HTML">>

\* App.url_var: the option menu stays at the key __init__ sets it to.
url_var == urls[1]

\* os.getcwd() of the process, and another directory the user can pick.
Cwd == "/home/user/jobs"

Dirs == {Cwd, "/home/user/other"}

Offer1 ==
    [slug |-> "acme-dev", title |-> "Dev", requiredSkills |-> <<"C", "SQL">>,
     niceToHaveSkills |-> <<>>, workplaceType |-> "remote",
     remoteInterview |-> "True",
     employmentTypes |-> <<[fromPln |-> IntV(10), toPln |-> IntV(20)]>>,
     city |-> "Gdansk", companyName |-> "Acme"]

\* Another posting with the title and the salary range of Offer1.
Offer2 ==
    [slug |-> "bolt-dev", title |-> "Dev", requiredSkills |-> <<"Go">>,
     niceToHaveSkills |-> <<"C">>, workplaceType |-> "office",
     remoteInterview |-> "False",
     employmentTypes |-> <<[fromPln |-> IntV(10), toPln |-> IntV(20)]>>,
     city |-> "Krakow", companyName |-> "Bolt"]

\* A posting with no employment type.
Offer3 ==
    [slug |-> "core-ops", title |-> "Ops", requiredSkills |-> <<>>,
     niceToHaveSkills |-> <<>>, workplaceType |-> "hybrid",
     remoteInterview |-> "True", employmentTypes |-> <<>>,
     city |-> "Unknown", companyName |-> "Core"]

Payloads == {<<>>, <<Offer1, Offer2>>, <<Offer3>>}

Responses ==
    {[kind |-> "error", status |-> 0, embedded |-> FALSE, payload |-> <<>>],
     [kind |-> "page", status |-> 404, embedded |-> FALSE, payload |-> <<>>],
     [kind |-> "page", status |-> 200, embedded |-> FALSE, payload |-> <<>>]}
        \cup {[kind |-> "page", status |-> 200, embedded |-> TRUE, payload |-> p] :
                 p \in Payloads}

\* The lines of the skill files the user can pick.
SkillFiles == {<<"C\n", " sql \n">>}

\* What a step did: the function, its directory, what failed in it ("none":
\* nothing) and whether it raised into its caller.
Step(op, d, failure, raised) ==
    [op |-> op, dir |-> d, failure |-> failure, raised |-> raised]

NoFiles == [data |-> NoFile, whole |-> NoFile]

\* data["JOB_TYPE"] = job_type; data.to_dict("records")
Tagged(frame, job_type) ==
    [i \in 1..Len(frame.rows) |-> frame.rows[i] @@ ("JOB_TYPE" :> StrV(job_type))]

\* What fails in data_processing.request: the GET ("http"), reading the
\* payload ("payload"), a per-listing operation that raises into request
\* ("listing") or one that catches its own error ("swallowed").
dp_request_failure(response, fault) ==
    IF response.kind = "error" THEN "http"
    ELSE IF NoPayload(response) THEN "payload"
    ELSE IF \E k \in 1..Len(response.payload) : request_row_raises(response.payload[k])
    THEN "payload"
    ELSE IF fault.at = 0 THEN "none"
    ELSE IF Propagates(fault.op) THEN "listing"
    ELSE "swallowed"

\* What fails in whole.request.
whole_request_failure(response) ==
    IF response.kind = "error" THEN "http"
    ELSE IF response.status # 200 THEN "status"
    ELSE IF NoPayload(response) THEN "payload"
    ELSE "none"

\* main.load_skills
load_skills(lines) == [i \in 1..Len(lines) |-> Strip(lines[i])]

\* A handler starts: the locals of the one before it are gone.
Returned ==
    /\ df' = EmptyFrame
    /\ all_data' = <<>>
    /\ url_idx' = 1
    /\ before' = NoFiles
    /\ calls' = <<>>

\* App.set_working_directory: the picker returns a directory, or "" when
\* it is cancelled.
SetWorkingDirectory ==
    /\ pc = "idle"
    /\ \E picked \in Dirs \cup {""} : working_dir' = picked
    /\ last' = Step("set_working_directory", working_dir', "none", FALSE)
    /\ Returned
    /\ UNCHANGED <<current_skills, fs, pc, runs>>

\* App.load_skills: the picker returns a file, or "" when it is cancelled.
LoadSkills ==
    /\ pc = "idle"
    /\ \/ /\ UNCHANGED current_skills
          /\ last' = Step("load_skills", working_dir, "cancelled", FALSE)
       \/ /\ \E file \in SkillFiles : current_skills' = load_skills(file)
          /\ last' = Step("load_skills", working_dir, "none", FALSE)
    /\ Returned
    /\ UNCHANGED <<working_dir, fs, pc, runs>>

\* A scrape_jobs that does not test the working directory.
HasWorkingDir_Untested(dir) == TRUE

\* scrape_jobs: `if working_dir:`
HasWorkingDir(dir) == dir # ""

\* The directory of os.path.join(dir, name): a relative path, which "" gives,
\* is in the process's working directory.
Resolved(dir) == IF dir = "" THEN Cwd ELSE dir

\* App.scrape_jobs with no working directory: the error dialog.
ScrapeUnset ==
    /\ pc = "idle"
    /\ ~HasWorkingDir(working_dir)
    /\ last' = Step("scrape_jobs", working_dir, "no_dir", FALSE)
    /\ Returned
    /\ UNCHANGED <<working_dir, current_skills, fs, pc, runs>>

\* App.scrape_jobs up to the return of dp.request.
ScrapeRequest ==
    /\ pc = "idle"
    /\ HasWorkingDir(working_dir)
    /\ runs < MaxRuns
    /\ \E url_key \in {url_var}, response \in Responses :
       \E fault \in Faults(response) :
          LET r == dp_request([fs[Resolved(working_dir)] EXCEPT !.data = NoFile],
                              current_skills, response, fault, url_key)
          IN  /\ fs' = [fs EXCEPT ![Resolved(working_dir)] = r.files]
              /\ df' = r.df
              /\ last' = Step("dp.request", Resolved(working_dir),
                              dp_request_failure(response, fault), r.raised)
              /\ pc' = IF r.raised THEN "idle" ELSE "scrape_summary"
              /\ current_skills' = SkillsAfter(current_skills, response.payload,
                                               WordCvCalls(response, fault))
              /\ calls' = Calls(response, fault)
    /\ before' = fs[Resolved(working_dir)]
    /\ runs' = runs + 1
    /\ all_data' = <<>>
    /\ url_idx' = 1
    /\ UNCHANGED working_dir

\* App.scrape_jobs from generate_summary on: the summary needs skills.txt in
\* the working directory as soon as df has a row; then df is appended to
\* output_whole.csv.
ScrapeAppend ==
    /\ pc = "scrape_summary"
    /\ \E skills_txt \in BOOLEAN :
          IF ~IsEmpty(df) /\ ~skills_txt
          THEN /\ last' = Step("scrape_jobs", Resolved(working_dir), "summary", TRUE)
               /\ UNCHANGED fs
          ELSE /\ last' = Step("scrape_jobs", Resolved(working_dir), last.failure,
                            FALSE)
               /\ fs' = [fs EXCEPT ![Resolved(working_dir)].whole =
                            IF @.exists THEN Appended(@, to_csv_lines(df, FALSE))
                            ELSE Written(to_csv_lines(df, TRUE))]
    /\ pc' = "idle"
    /\ UNCHANGED <<working_dir, current_skills, df, all_data, url_idx, before, runs,
                   calls>>

\* App.run_whole_analysis, whole.main: fetch_job_data starts.
WholeStart ==
    /\ pc = "idle"
    /\ runs < MaxRuns
    /\ pc' = "whole_fetch"
    /\ url_idx' = 1
    /\ all_data' = <<>>
    /\ df' = EmptyFrame
    /\ before' = fs[Cwd]
    /\ runs' = runs + 1
    /\ last' = Step("whole.main", Cwd, "none", FALSE)
    /\ calls' = <<>>
    /\ UNCHANGED <<working_dir, current_skills, fs>>

\* One turn of fetch_job_data's loop over urls.
WholeFetch ==
    /\ pc = "whole_fetch"
    /\ url_idx <= Len(urls)
    /\ \E response \in Responses :
          LET r == whole_request(fs[Cwd], response)
          IN  /\ fs' = [fs EXCEPT ![Cwd] = r.files]
              /\ df' = r.df
              /\ all_data' = IF IsEmpty(r.df) THEN all_data
                             ELSE all_data \o Tagged(r.df, urls[url_idx])
              /\ last' = Step("whole.request", Cwd, whole_request_failure(response),
                              r.raised)
              /\ pc' = IF r.raised THEN "idle" ELSE pc
    /\ url_idx' = url_idx + 1
    /\ UNCHANGED <<working_dir, current_skills, before, runs, calls>>

\* whole.main after fetch_job_data: save_to_csv.
WholeSave ==
    /\ pc = "whole_fetch"
    /\ url_idx > Len(urls)
    /\ LET r == save_to_csv(all_data, fs[Cwd].whole)
       IN  /\ fs' = [fs EXCEPT ![Cwd].whole = r.file]
           /\ last' = Step("save_to_csv", Cwd,
                            IF r.raised THEN "read_csv"
                            ELSE IF all_data = <<>> THEN "no_data" ELSE "none",
                            r.raised)
    /\ pc' = "idle"
    /\ UNCHANGED <<working_dir, current_skills, df, all_data, url_idx, before, runs,
                   calls>>

Init ==
    /\ working_dir = ""
    /\ current_skills = <<>>
    /\ fs = [d \in Dirs |-> NoFiles]
    /\ pc = "idle"
    /\ df = EmptyFrame
    /\ all_data = <<>>
    /\ url_idx = 1
    /\ last = Step("init", "", "none", FALSE)
    /\ before = NoFiles
    /\ runs = 0
    /\ calls = <<>>
    /\ required = <<>>
    /\ current = <<>>
    /\ result = <<>>
    /\ stored = <<>>
    /\ mop = "input"
    /\ filename = ""
    /\ sanitized = <<>>
    /\ documents = <<>>
    /\ distortions = <<>>
    /\ clusters = <<>>

Next ==
    \/ (SetWorkingDirectory /\ UNCHANGED <<mvars, svars, evars>>)
    \/ (LoadSkills /\ UNCHANGED <<mvars, svars, evars>>)
    \/ (ScrapeUnset /\ UNCHANGED <<mvars, svars, evars>>)
    \/ (ScrapeRequest /\ UNCHANGED <<mvars, svars, evars>>)
    \/ (ScrapeAppend /\ UNCHANGED <<mvars, svars, evars>>)
    \/ (WholeStart /\ UNCHANGED <<mvars, svars, evars>>)
    \/ (WholeFetch /\ UNCHANGED <<mvars, svars, evars>>)
    \/ (WholeSave /\ UNCHANGED <<mvars, svars, evars>>)

Spec == Init /\ [][Next]_vars

\* ============================================================= file names

RECURSIVE replace(_, _, _)
\* str.replace(old, new) for a one-character old
replace(s, old, new) ==
    IF s = "" THEN ""
    ELSE (IF SubSeq(s, 1, 1) = old THEN new ELSE SubSeq(s, 1, 1))
             \o replace(Tail(s), old, new)

\* The replace calls of sanitize_filename, in their order.
Replacements ==
    <<<<" ", "_">>, <<"-", "_">>, <<"/", "_">>, <<"\\", "_">>, <<"*", "">>,
      <<"|", "">>, <<":", "">>, <<"?", "">>, <<"<", "">>, <<">", "">>,
      <<":", "_">>, <<"(", "_">>, <<")", "_">>>>

RECURSIVE ReplacedBy(_, _)
\* s after the replace calls of `pairs`, first to last
ReplacedBy(s, pairs) ==
    IF pairs = <<>> THEN s
    ELSE ReplacedBy(replace(s, pairs[1][1], pairs[1][2]), Tail(pairs))

\* A sanitize_filename without its replace calls for the parentheses.
sanitize_filename_KeepsParentheses(name) ==
    ReplacedBy(name, SubSeq(Replacements, 1, Len(Replacements) - 2))

sanitize_filename(name) == ReplacedBy(name, Replacements)

\* The documents word_cv_prepare and generate_cover_letter save for a
\* position.
document_names(position) ==
    <<"Przemyslaw_Tutur_" \o sanitize_filename(position) \o ".docx",
      "Przemyslaw_Tutur_" \o sanitize_filename(position) \o "_extended.docx",
      "Cover_Letter_" \o sanitize_filename(position) \o ".docx">>

\* The characters of the job titles tried.
TitleChars ==
    {" ", "-", "/", "\\", "*", "|", ":", "?", "<", ">", "(", ")", "a", "_"}

RECURSIVE TitlesUpTo(_)
TitlesUpTo(n) ==
    IF n = 0 THEN {""}
    ELSE LET shorter == TitlesUpTo(n - 1)
         IN  shorter \cup {t \o c : t \in shorter, c \in TitleChars}

InitName ==
    /\ filename \in TitlesUpTo(MaxTitle)
    /\ sanitized = <<>>
    /\ documents = <<>>
    /\ distortions = <<>>
    /\ clusters = <<>>
    /\ required = <<>>
    /\ current = <<>>
    /\ result = <<>>
    /\ stored = <<>>
    /\ mop = "input"
    /\ working_dir = ""
    /\ current_skills = <<>>
    /\ fs = [d \in Dirs |-> NoFiles]
    /\ pc = "idle"
    /\ df = EmptyFrame
    /\ all_data = <<>>
    /\ url_idx = 1
    /\ last = Step("init", "", "none", FALSE)
    /\ before = NoFiles
    /\ runs = 0
    /\ calls = <<>>

Sanitize ==
    /\ sanitized = <<>>
    /\ sanitized' = <<sanitize_filename(filename)>>
    /\ UNCHANGED <<filename, documents, mvars, gvars, evars>>

NameDocuments ==
    /\ documents = <<>>
    /\ documents' = document_names(filename)
    /\ UNCHANGED <<filename, sanitized, mvars, gvars, evars>>

NextName == Sanitize \/ NameDocuments

SpecName == InitName /\ [][NextName]_vars

\* ================================================= cluster count selector
\* The elbow heuristic of the visualizer.  The point of the curve for k
\* clusters is (k, distortions[k]).  An angle is kept as the pair
\* <<dot, norms>> of its cosine dot / sqrt(norms), compared exactly.

\* The cosine of the angle at interior point k between the vectors to its
\* two neighbours.
CosineAt(curve, k) ==
    LET back == curve[k - 1] - curve[k]
        ahead == curve[k + 1] - curve[k]
    IN  <<ahead * back - 1, (1 + back * back) * (1 + ahead * ahead)>>

\* cosine a < cosine b
CosLess(a, b) ==
    IF a[1] < 0 /\ b[1] >= 0 THEN TRUE
    ELSE IF a[1] >= 0 /\ b[1] < 0 THEN FALSE
    ELSE IF a[1] >= 0 THEN a[1] * a[1] * b[2] < b[1] * b[1] * a[2]
    ELSE a[1] * a[1] * b[2] > b[1] * b[1] * a[2]

\* The angle at point a is greater than the angle at point b.
AngleGreater(curve, a, b) == CosLess(CosineAt(curve, a), CosineAt(curve, b))

\* The interior points of the curve: those the angle array has an entry for.
Interior(curve) == 2..(Len(curve) - 1)

\* A maximum search that keeps the last of equal maxima.
ArgMax_Last(curve) ==
    CHOOSE k \in Interior(curve) :
        /\ \A j \in Interior(curve) : ~AngleGreater(curve, j, k)
        /\ \A j \in Interior(curve) : (j > k) => AngleGreater(curve, k, j)

\* The position of the maximum of the angle array: the first of equal maxima.
ArgMax(curve) ==
    CHOOSE k \in Interior(curve) :
        /\ \A j \in Interior(curve) : ~AngleGreater(curve, j, k)
        /\ \A j \in Interior(curve) : (j < k) => AngleGreater(curve, k, j)

\* The selector: 2 for fewer than 3 candidate counts; else the count two
\* positions before the point of the maximum angle, and 2 at least.
select_cluster_count(curve) ==
    IF Len(curve) < 3 THEN 2
    ELSE LET stepped == ArgMax(curve) - 2
         IN  IF stepped < 2 THEN 2 ELSE stepped

\* The slopes and the heights of the curves tried.
Slopes == {-2, -1, 0, 1, 2}

Top == 2 * MaxCounts + 1

\* A straight line of n points, point j moved by e.
Curve(n, slope, j, e) ==
    [k \in 1..n |-> (IF slope < 0 THEN Top ELSE 1) + slope * (k - 1)
                       + (IF k = j THEN e ELSE 0)]

Curves ==
    {Curve(n, slope, j, e) :
        n \in 0..MaxCounts, slope \in Slopes, j \in 1..MaxCounts, e \in {-1, 0, 1}}

InitElbow ==
    /\ distortions \in Curves
    /\ clusters = <<>>
    /\ filename = ""
    /\ sanitized = <<>>
    /\ documents = <<>>
    /\ required = <<>>
    /\ current = <<>>
    /\ result = <<>>
    /\ stored = <<>>
    /\ mop = "input"
    /\ working_dir = ""
    /\ current_skills = <<>>
    /\ fs = [d \in Dirs |-> NoFiles]
    /\ pc = "idle"
    /\ df = EmptyFrame
    /\ all_data = <<>>
    /\ url_idx = 1
    /\ last = Step("init", "", "none", FALSE)
    /\ before = NoFiles
    /\ runs = 0
    /\ calls = <<>>

Select ==
    /\ clusters = <<>>
    /\ clusters' = <<select_cluster_count(distortions)>>
    /\ UNCHANGED <<distortions, mvars, gvars, svars>>

NextElbow == Select

SpecElbow == InitElbow /\ [][NextElbow]_vars

\* ================================================================ matcher
\* The matcher on its own: Init draws the two lists, Match applies the
\* function, BuildRow builds the record of a listing that requires
\* `required`, and Recase respells one element in another letter case.

MatchSkills == {"C", "c", "Go", "go"}

SkillLists == UNION {[1..k -> MatchSkills] : k \in 0..MaxSkills}

\* A payload entry whose required skills are l.
ListingRequiring(l) ==
    [slug |-> "dev-1", title |-> "Dev", requiredSkills |-> l,
     niceToHaveSkills |-> <<>>, workplaceType |-> "remote",
     remoteInterview |-> "True",
     employmentTypes |-> <<[fromPln |-> IntV(10), toPln |-> IntV(20)]>>,
     city |-> "Gdansk", companyName |-> "Acme"]

NoResult == <<>>

InitMatch ==
    /\ required \in SkillLists
    /\ current \in SkillLists
    /\ result = NoResult
    /\ stored = <<>>
    /\ mop = "input"
    /\ working_dir = ""
    /\ current_skills = <<>>
    /\ fs = [d \in Dirs |-> NoFiles]
    /\ pc = "idle"
    /\ df = EmptyFrame
    /\ all_data = <<>>
    /\ url_idx = 1
    /\ last = Step("init", "", "none", FALSE)
    /\ before = NoFiles
    /\ runs = 0
    /\ calls = <<>>
    /\ filename = ""
    /\ sanitized = <<>>
    /\ documents = <<>>
    /\ distortions = <<>>
    /\ clusters = <<>>

Match ==
    /\ result = NoResult
    /\ result' = <<skill_match_percentage(required, current)>>
    /\ mop' = "match"
    /\ UNCHANGED <<required, current, stored, gvars, svars, evars>>

BuildRow ==
    /\ stored = <<>>
    /\ \E job_type \in {"Python"} :
           stored' = <<request_row(ListingRequiring(required), current, job_type)>>
    /\ mop' = "row"
    /\ UNCHANGED <<required, current, result, gvars, svars, evars>>

\* Two characters that are one letter, in whatever case.
SameLetter(a, b) ==
    \/ a = b
    \/ \E i \in 1..Len(UpperLetters) :
           {a, b} = {SubSeq(UpperLetters, i, i), SubSeq(LowerLetters, i, i)}

\* Two spellings of one word that differ in letter case only.
SameWord(s, t) ==
    /\ Len(s) = Len(t)
    /\ \A i \in 1..Len(s) : SameLetter(SubSeq(s, i, i), SubSeq(t, i, i))

Recasings == {p \in MatchSkills \X MatchSkills : p[1] # p[2] /\ SameWord(p[1], p[2])}

\* l with element i respelled as s
Respell(l, i, s) == [l EXCEPT ![i] = s]

RecaseRequired ==
    /\ result # NoResult
    /\ \E i \in 1..Len(required) : \E s \in MatchSkills :
           /\ <<required[i], s>> \in Recasings
           /\ required' = Respell(required, i, s)
    /\ result' = <<skill_match_percentage(required', current)>>
    /\ stored' = <<>>
    /\ mop' = "recase"
    /\ UNCHANGED <<current, gvars, svars, evars>>

RecaseCurrent ==
    /\ result # NoResult
    /\ \E i \in 1..Len(current) : \E s \in MatchSkills :
           /\ <<current[i], s>> \in Recasings
           /\ current' = Respell(current, i, s)
    /\ result' = <<skill_match_percentage(required, current')>>
    /\ stored' = <<>>
    /\ mop' = "recase"
    /\ UNCHANGED <<required, gvars, svars, evars>>

NextMatch == Match \/ BuildRow \/ RecaseRequired \/ RecaseCurrent

SpecMatch == InitMatch /\ [][NextMatch]_vars

\* ----------------------------------------------------------------- claims

\* The set of the lowercased elements of a list.
LowerSet(l) == {Lower(l[i]) : i \in 1..Len(l)}

InRange(f) == f[1] >= 0 /\ f[1] <= 100 * f[2]

\* C1: for a non-empty required list R, skill_match_percentage(R, C) is
\* |lower(R) \cap lower(C)| / |lower(R)| * 100, lower(.) being the SET of the
\* lowercased elements.
C1_SetRatio ==
    (result # NoResult /\ required # <<>>) =>
        result[1] = Ratio100(Cardinality(LowerSet(required) \cap LowerSet(current)),
                             Cardinality(LowerSet(required)))

\* C2: the MATCH_PERCENTAGE of a listing record is the matcher's overlap ratio
\* between the listing's required-skill list and the user's skill list.
C2_StoredIsListOverlap ==
    \A i \in 1..Len(stored) :
        stored[i].MATCH_PERCENTAGE = FloatV(skill_match_percentage(required, current))

\* C8: matching a non-empty list against itself gives 100.
C8_SelfMatchIs100 ==
    (result # NoResult /\ required # <<>> /\ current = required) =>
        result[1] = <<100, 1>>

\* C9: every match percentage, returned or stored in a record, is in [0, 100].
C9_InRange ==
    /\ \A i \in 1..Len(result) : InRange(result[i])
    /\ \A i \in 1..Len(stored) :
           /\ stored[i].MATCH_PERCENTAGE.t = "float"
           /\ InRange(<<stored[i].MATCH_PERCENTAGE.n, stored[i].MATCH_PERCENTAGE.d>>)

C9_Witness ==
    /\ result # NoResult /\ result[1] = <<50, 1>>
    /\ stored # <<>> /\ stored[1].MATCH_PERCENTAGE.n > 0

\* C10: respelling an element of either list in another letter case leaves
\* the result as it was.
C10_CaseInsensitive == [][mop' = "recase" => result' = result]_vars

C10_Witness ==
    /\ mop = "recase"
    /\ result # NoResult /\ result[1] # Zero /\ result[1] # <<100, 1>>
    /\ \E i \in 1..Len(required) : Lower(required[i]) # required[i]

\* C11: with an empty required list the matcher returns 0, whatever the
\* current list, and divides nothing by zero.
C11_EmptyRequiredIsZero ==
    (result # NoResult /\ required = <<>>) => result[1] = Zero

C11_Witness ==
    /\ result # NoResult
    /\ required = <<>>
    /\ Len(current) = MaxSkills

\* C12: a working directory that has been set stays as it is until the user
\* picks another one; no other action, and no cancelled picker, changes it.
C12_WorkingDirKept ==
    [][(working_dir # "" /\ working_dir' # working_dir) =>
          (last'.op = "set_working_directory" /\ working_dir' \in Dirs)]_vars

\* C13: current_skills changes only when a skill file is loaded: no scrape,
\* no CV, no match, no summary, no whole analysis, no cancelled picker
\* changes it.
C13_SkillsReadOnly ==
    [][current_skills' # current_skills =>
          (last'.op = "load_skills" /\ last'.failure = "none")]_vars

C13_Witness ==
    /\ current_skills # <<>>
    /\ last.op = "dp.request"
    /\ last.failure = "none"
    /\ ~IsEmpty(df)

\* The characters C14 names.
Forbidden == {" ", "-", "/", "\\", "*", "|", ":", "?", "<", ">", "(", ")"}

\* C14: what sanitize_filename returns holds none of the characters space
\* - / \ * | : ? < > ( ), and so no CV or cover-letter file name does in the
\* part made from the job title.
C14_NoForbiddenChars ==
    /\ \A k \in 1..Len(sanitized) : \A i \in 1..Len(sanitized[k]) :
           SubSeq(sanitized[k], i, i) \notin Forbidden
    /\ \A k \in 1..Len(documents) : \A i \in 1..Len(documents[k]) :
           SubSeq(documents[k], i, i) \notin Forbidden

C14_Witness ==
    /\ sanitized # <<>> /\ documents # <<>>
    /\ Len(filename) = MaxTitle
    /\ \A i \in 1..Len(filename) : SubSeq(filename, i, i) \in Forbidden
    /\ sanitized[1] # ""

\* Each point of the curve is above, or each below, the one before it.
StrictlyMonotonic(curve) ==
    \/ \A k \in 2..Len(curve) : curve[k] > curve[k - 1]
    \/ \A k \in 2..Len(curve) : curve[k] < curve[k - 1]

\* The curve is a straight line.
NoBend(curve) ==
    \A k \in Interior(curve) : curve[k + 1] - curve[k] = curve[k] - curve[k - 1]

\* C15: for a strictly monotonic distortion curve with no bend the selector
\* returns 2.
C15_StraightCurveGivesTwo ==
    (clusters # <<>> /\ StrictlyMonotonic(distortions) /\ NoBend(distortions)) =>
        clusters[1] = 2

C15_Witness ==
    /\ clusters # <<>>
    /\ Len(distortions) = MaxCounts
    /\ StrictlyMonotonic(distortions)
    /\ NoBend(distortions)

\* ---- the files

\* How many lines of `lines` are l.
Count(l, lines) == Cardinality({i \in 1..Len(lines) : lines[i] = l})

\* The position of a column in a header line.
ColumnAt(header, name) == CHOOSE j \in 1..Len(header) : header[j] = name

HeaderLines == {request_columns, whole_request_columns, required_columns}

\* The lines of a file that are listing rows.
ListingLines(lines) == {i \in 1..Len(lines) : lines[i] # <<>> /\ lines[i] \notin HeaderLines}

\* The line to_csv writes for row i of a DataFrame.
LineOf(frame, i) == to_csv_lines(frame, FALSE)[i]

\* read_csv takes the leading fields of a data line as an index when the first
\* data line has more fields than the header; save_to_csv never reads such a file.
ImplicitIndexNeverRead ==
    (pc = "whole_fetch" /\ url_idx > Len(urls) /\ all_data # <<>>) =>
        LET text == NonBlank(fs[Cwd].whole.lines)
        IN  Len(text) >= 2 => Len(text[2]) <= Len(text[1])

\* C3: when save_to_csv has completed with non-empty data, no two rows of the
\* file have the same (TITLE, PAYMENT_FROM, PAYMENT_TO).
C3_NoDuplicateKeys ==
    (last.op = "save_to_csv" /\ last.failure = "none") =>
        LET lines == fs[Cwd].whole.lines
            key(i) == [j \in 1..Len(dedup_subset) |->
                          lines[i][ColumnAt(lines[1], dedup_subset[j])]]
        IN  \A i, j \in 2..Len(lines) : i # j => key(i) # key(j)

\* C4: when a GUI scrape has succeeded, each record of the scrape is in
\* output_data.csv once, and output_whole.csv holds it once more than before.
C4_AppendedOnce ==
    (last.op = "scrape_jobs" /\ ~last.raised /\ last.failure \in {"none", "swallowed"}) =>
        \A i \in 1..Len(df.rows) :
            /\ Count(LineOf(df, i), fs[last.dir].data.lines) = 1
            /\ Count(LineOf(df, i), fs[last.dir].whole.lines)
                   = Count(LineOf(df, i), before.whole.lines) + 1

\* new has the fields of old, in their places (and maybe more after them)
Extends(new, old) == Len(new) >= Len(old) /\ SubSeq(new, 1, Len(old)) = old

\* C5: a listing row of output_whole.csv stays in the file with its field
\* values, whatever runs later.
C5_RowsNeverChange ==
    [][\A d \in Dirs : \A i \in ListingLines(fs[d].whole.lines) :
           \E j \in 1..Len(fs'[d].whole.lines) :
               Extends(fs'[d].whole.lines[j], fs[d].whole.lines[i])]_vars

\* new holds nothing that old did not: its lines are the first lines of old
NothingAppended(old, new) ==
    /\ Len(new.lines) <= Len(old.lines)
    /\ \A i \in 1..Len(new.lines) : new.lines[i] = old.lines[i]

RaisedInRequest == {"http", "status", "payload", "listing"}

\* What C6 says of a step that is a request failing in one of the ways of
\* `failures`.
FailedRequestAddsNothing(failures) ==
    (last'.op \in {"dp.request", "whole.request"} /\ last'.failure \in failures) =>
        /\ ~last'.raised
        /\ IsEmpty(df')
        /\ NothingAppended(fs[last'.dir].data, fs'[last'.dir].data)
        /\ NothingAppended(fs[last'.dir].whole, fs'[last'.dir].whole)

\* C6 (as stated): a request in which the GET, the reading of the payload or
\* any per-listing file operation fails does not raise into its caller,
\* returns an empty DataFrame and appends nothing to either CSV file.
C6_AnyFailure == [][FailedRequestAddsNothing(RaisedInRequest \cup {"swallowed"})]_vars

\* C6 (amended): a request in which the GET, the reading of the payload or a
\* per-listing operation whose error reaches request's except clause fails
\* does not raise into its caller, returns an empty DataFrame and appends
\* nothing to either CSV file.
C6_FailedRequestAddsNothing == [][FailedRequestAddsNothing(RaisedInRequest)]_vars

C6_Witness ==
    /\ last.op = "dp.request"
    /\ last.failure = "listing"
    /\ ListingLines(fs[last.dir].whole.lines) # {}
    /\ ListingLines(before.data.lines) # {}

\* C7: every data row of output_whole.csv has as many fields as the header
\* row of the file.
C7_UniformColumns ==
    \A d \in Dirs :
        LET text == NonBlank(fs[d].whole.lines)
        IN  \A i \in 2..Len(text) : Len(text[i]) = Len(text[1])

\* C16: a scrape whose request failed and returned an empty DataFrame leaves
\* output_whole.csv out: the file is not created and not modified.
C16_FailedScrapeSkipsWhole ==
    (last.op = "scrape_jobs" /\ last.failure \in RaisedInRequest) =>
        fs[last.dir].whole = before.whole

\* C17: an output_whole.csv that holds listing rows starts with the header
\* line and holds the header once.
C17_HeaderFirstAndOnce ==
    \A d \in Dirs :
        LET lines == fs[d].whole.lines
        IN  (fs[d].whole.exists /\ ListingLines(lines) # {}) =>
                /\ lines[1] \in HeaderLines
                /\ Cardinality({i \in 1..Len(lines) : lines[i] \in HeaderLines}) = 1

\* C18: after a successful request output_data.csv is one header line and
\* then the listings of that request, nothing of an earlier run.
C18_DataFileIsThisRun ==
    (last.op \in {"dp.request", "whole.request"} /\ last.failure \in {"none", "swallowed"}) =>
        fs[last.dir].data.lines =
            <<IF last.op = "dp.request" THEN request_columns ELSE whole_request_columns>>
                \o to_csv_lines(df, FALSE)

\* The records of a DataFrame, each with the JOB_TYPE given.
IsTaggedCopy(records, frame, job_type) ==
    /\ Len(records) = Len(frame.rows)
    /\ \A i \in 1..Len(records) :
           /\ DOMAIN records[i] = Range(frame.columns) \cup {"JOB_TYPE"}
           /\ records[i].JOB_TYPE = StrV(job_type)
           /\ \A c \in Range(frame.columns) : records[i][c] = frame.rows[i][c]

\* C19: fetch_job_data requests every job type of urls in turn, whatever
\* the requests before it gave; each non-empty result adds its records,
\* tagged with the job type of its URL, to the list, an empty or failed one
\* adds nothing; and the list is handed on only after the last job type.
C19_FetchEveryType ==
    [][/\ (last'.op = "whole.request") =>
              /\ url_idx <= Len(urls)
              /\ url_idx' = url_idx + 1
              /\ pc' = "whole_fetch"
              /\ ~last'.raised
              /\ all_data = SubSeq(all_data', 1, Len(all_data))
              /\ IsTaggedCopy(SubSeq(all_data', Len(all_data) + 1, Len(all_data')),
                              df', urls[url_idx])
       /\ (pc = "whole_fetch" /\ pc' # "whole_fetch") =>
              (url_idx = Len(urls) + 1 /\ last'.op = "save_to_csv")]_vars

C19_Witness ==
    /\ pc = "whole_fetch"
    /\ url_idx = Len(urls) + 1
    /\ last.op = "whole.request"
    /\ all_data # <<>>
    /\ all_data[1].JOB_TYPE = StrV(urls[Len(urls)])

\* The call of operation op for listing k is among the calls made.
Called(k, op) == \E i \in 1..Len(calls) : calls[i].at = k /\ calls[i].op = op

\* C20: when take_job_description fails for a listing, request does not
\* raise, the CV and the cover letter of that listing are still attempted,
\* the listings after it are still processed, and the record of the listing
\* is in both CSV files.
C20_DescriptionFailureSwallowed ==
    \A i \in 1..Len(calls) :
        (last.op = "dp.request" /\ calls[i].op = "take_job_description" /\ calls[i].failed) =>
            /\ ~last.raised
            /\ Called(calls[i].at, "word_cv_prepare")
            /\ Called(calls[i].at, "generate_cover_letter")
            /\ \A k \in 1..(calls[Len(calls)].at) : \A op \in Range(ListingOps) : Called(k, op)
            /\ Len(df.rows) >= calls[i].at
            /\ Count(LineOf(df, calls[i].at), fs[last.dir].data.lines) >= 1
            /\ Count(LineOf(df, calls[i].at), fs[last.dir].whole.lines)
                   > Count(LineOf(df, calls[i].at), before.whole.lines)

C20_Witness ==
    /\ last.op = "dp.request"
    /\ Len(df.rows) = 2
    /\ \E i \in 1..Len(calls) :
           calls[i].at = 1 /\ calls[i].op = "take_job_description" /\ calls[i].failed
    /\ Called(2, "generate_cover_letter")

\* C21: with the working directory unset, Scrape Jobs makes no request and
\* creates, deletes and writes no file; it only shows the error dialog.
C21_UnsetDirDoesNothing ==
    [][(working_dir = "" /\ last'.op \in {"scrape_jobs", "dp.request"}) =>
          /\ last'.op = "scrape_jobs"
          /\ last'.failure = "no_dir"
          /\ ~last'.raised
          /\ pc' = "idle"
          /\ calls' = <<>>
          /\ fs' = fs]_vars

C21_Witness ==
    /\ last.op = "scrape_jobs"
    /\ last.failure = "no_dir"
    /\ working_dir = ""
    /\ fs[Cwd].data.exists
    /\ ListingLines(fs[Cwd].whole.lines) # {}

\* ---- merging into an existing output_whole.csv

\* The key of a new record, as the text to_csv writes for it.
KeyText(row) == [j \in 1..Len(dedup_subset) |-> FormatCell(row[dedup_subset[j]])]

\* The key of data line m of a file, as the text under the key's columns.
LineKey(lines, m) ==
    LET text == NonBlank(lines)
        names == MangledNames(text[1])
    IN  [j \in 1..Len(dedup_subset) |->
            IF dedup_subset[j] \in Range(names)
            THEN Field(text[m], ColumnAt(names, dedup_subset[j]))
            ELSE ""]

\* The data lines of a file whose key is k.
WithKey(lines, k) == {m \in 2..Len(NonBlank(lines)) : LineKey(lines, m) = k}

\* save_to_csv has merged all_data into the file that was there.
Merged ==
    /\ last'.op = "save_to_csv"
    /\ last'.failure = "none"
    /\ fs[Cwd].whole.exists

\* A new record whose key a row of the file has is discarded: the file has the
\* key once afterwards, in a row that was in the file.
ExistingRowKept ==
    LET old == fs[Cwd].whole.lines
        out == fs'[Cwd].whole.lines
        kept == {LineOf(Selected(read_csv(old), required_columns), m - 1) :
                    m \in 2..Len(NonBlank(old))}
    IN  \A i \in 1..Len(all_data) :
            LET k == KeyText(all_data[i])
            IN  WithKey(old, k) # {} =>
                   /\ Cardinality(WithKey(out, k)) = 1
                   /\ \A m \in WithKey(out, k) : NonBlank(out)[m] \in kept

\* A new record whose key no row of the file has is in the file afterwards.
NewKeyAdded ==
    LET old == fs[Cwd].whole.lines
        out == fs'[Cwd].whole.lines
    IN  \A i \in 1..Len(all_data) :
            LET k == KeyText(all_data[i])
            IN  WithKey(old, k) = {} => WithKey(out, k) # {}

\* C22: when save_to_csv merges new records into an existing file, a new
\* record with the (TITLE, PAYMENT_FROM, PAYMENT_TO) of a row already in the
\* file is discarded and the file's row is kept; every new record whose key
\* is not yet present is added.
C22_ExistingRowWins ==
    [][Merged => (ExistingRowKept /\ NewKeyAdded)]_vars

====
